---- MODULE Spec2Model ----
(***************************************************************************)
(* Scheduling and recovery logic of the package-analysis service:          *)
(* the Celery tasks run_dynamic_analysis, check_timeouts, cleanup_old_tasks *)
(* and the helpers _process_next_queued_task and _update_queue_positions   *)
(* of src/tasks.py, over the AnalysisTask table, the Celery broker and the *)
(* Django cache.                                                           *)
(*                                                                         *)
(* Every `with transaction.atomic()` block is one atomic step: the Task    *)
(* Store is taken to give serializable transactions.  Code between two     *)
(* transactions of one attempt is a separate step, so that other workers   *)
(* and the periodic jobs interleave with it.  Each attempt keeps the       *)
(* in-memory `task` object it loaded; task.save() writes every column of   *)
(* that object back.                                                       *)
(*                                                                         *)
(* Time is the clock `now`, in seconds, advancing in steps of one minute.  *)
(* The lock-scoped bookkeeping of an attempt is short next to that step:   *)
(* the clock advances only while every worker is idle or waiting for the   *)
(* Container Executor.                                                     *)
(***************************************************************************)
EXTENDS Integers, FiniteSets, Sequences, Bags, TLC

\* ---------------------------------------------------------------- bounds
NumTasks == 3      \* AnalysisTask rows the table can hold
MainTasks == 2     \* rows created under Spec
MaxBackoff == 3    \* retries made for which the backoff is computed
NumWorkers == 2    \* analysis worker processes taking attempts concurrently
MaxTicks == 2      \* clock steps of default_retry_delay seconds each, under Spec
QueueTicks == 1    \* clock steps under SpecQueue
MaxDup == 1        \* identical broker messages tracked at the same time
MaxDays == 8       \* clock steps of one day each, under SpecRetention

\* ------------------------------------------------------ program constants
max_retries == 1                \* @shared_task(max_retries=1, ...)
default_retry_delay == 60       \* @shared_task(..., default_retry_delay=60)
ContentionCountdown == 30       \* self.retry(countdown=30, ...)
RetryBase == 60                 \* retry_countdown = 60 * (2 ** retries)
timeout_minutes == 1            \* AnalysisTask.timeout_minutes of the modelled tasks
RetentionDays == 7              \* timedelta(days=7)
Day == 86400                    \* seconds in a day

TaskIds == 1..NumTasks
Workers == 1..NumWorkers
Priorities == {5, 10}
Packages == {"pkgA"}
NoPurl == ""
Null == 0 - 1

VARIABLES
    db,        \* the AnalysisTask table: task id -> row
    now,       \* timezone.now(), in seconds
    msgs,      \* the broker's analysis queue: bag of [id, retries, eta]
    wk,        \* the run_dynamic_analysis invocations in progress, per worker
    cache,     \* keys present in the Django cache
    reports,   \* number of ReportDynamicAnalysis rows (the latest id)
    runs,      \* per task: Helper.run_package_analysis calls started so far
    stopped,   \* container ids handed to container_manager.stop_container
    submitted  \* the task id this step's _process_next_queued_task submitted, or 0

vars == <<db, now, msgs, wk, cache, reports, runs, stopped, submitted>>

\* ------------------------------------------------------------------ rows
AbsentRow ==
    [status |-> "absent", priority |-> 0, queued_at |-> Null, queue_position |-> Null,
     started_at |-> Null, completed_at |-> Null, last_heartbeat |-> Null,
     container_id |-> Null, duration_seconds |-> Null, report |-> Null,
     download_url |-> Null, error_message |-> "", error_category |-> "",
     container_stopped |-> "", retry_count |-> 0, max_retries |-> max_retries,
     timeout_minutes |-> timeout_minutes, purl |-> NoPurl, package |-> ""]

IdleWorker ==
    [pc |-> "idle", id |-> 0, retries |-> 0, task |-> AbsentRow, exc |-> "",
     start_time |-> Null]

Running(d) == {t \in TaskIds : d[t].status = "running"}
Queued(d) == {t \in TaskIds : d[t].status = "queued"}

\* the queue ordered by queued_at alone
BeforeFifo(d, a, b) == d[a].queued_at < d[b].queued_at

\* order_by('-priority', 'queued_at'): a sorts strictly before b
Before(d, a, b) ==
    \/ d[a].priority > d[b].priority
    \/ d[a].priority = d[b].priority /\ d[a].queued_at < d[b].queued_at

\* the rows .first() may return for filter(status='queued').order_by('-priority', 'queued_at')
FirstQueued(d) == {t \in Queued(d) : \A u \in Queued(d) : ~Before(d, u, t)}

\* filter(purl=..., status='completed', report__isnull=False).exclude(id=t)
CompletedMatches(d, t) ==
    {u \in TaskIds \ {t} : /\ d[u].status = "completed"
                           /\ d[u].purl = d[t].purl
                           /\ d[u].report # Null}

\* ... .order_by('-completed_at').first()
LatestCompleted(d, t) ==
    {u \in CompletedMatches(d, t) :
        \A v \in CompletedMatches(d, t) : d[v].completed_at <= d[u].completed_at}

\* enumerate(queued_tasks, 1): the 1-based rank; rows equal in both keys keep id order
Rank(d, t) ==
    1 + Cardinality({u \in Queued(d) : Before(d, u, t) \/ (~Before(d, t, u) /\ u < t)})

_update_queue_positions(d) ==
    [t \in TaskIds |->
        IF d[t].status = "queued" THEN [d[t] EXCEPT !.queue_position = Rank(d, t)]
        ELSE d[t]]

\* a broker that drops what is handed to it
SendLost(m, msg) == m

\* every submission made twice
SendTwice(m, msg) == m (+) SetToBag({msg}) (+) SetToBag({msg})

\* apply_async / the apply_async inside self.retry
Send(m, msg) ==
    IF CopiesIn(msg, m) >= MaxDup THEN m ELSE m (+) SetToBag({msg})

Msg(t, r, eta) == [id |-> t, retries |-> r, eta |-> eta]

\* the copy of a completed row's result onto a row (result reuse)
Reuse(row, src, t0) ==
    [row EXCEPT !.status = "completed", !.completed_at = t0,
                !.report = src.report, !.download_url = src.download_url,
                !.queue_position = Null]

\* the check for a running row left out
AnyRunningUnchecked(d) == FALSE

\* lines 251-256: AnalysisTask.objects.filter(status='running').first()
AnyRunning(d) == Running(d) # {}

\* lines 246-294; each result carries the rows, the broker queue, the task
\* submitted (0 for none) and the depth the recursion went to
RECURSIVE _process_next_queued_task(_, _, _)
_process_next_queued_task(d, m, t0) ==
    IF AnyRunning(d) THEN {[db |-> d, msgs |-> m, submitted |-> 0, depth |-> 0]}
    ELSE IF Queued(d) = {} THEN {[db |-> d, msgs |-> m, submitted |-> 0, depth |-> 0]}
    ELSE UNION {
        IF d[next].purl # NoPurl /\ CompletedMatches(d, next) # {}
        THEN UNION { { [r EXCEPT !.depth = @ + 1] :
                         r \in _process_next_queued_task(
                                  _update_queue_positions(
                                      [d EXCEPT ![next] = Reuse(d[next], d[c], t0)]),
                                  m, t0) }
                     : c \in LatestCompleted(d, next) }
        ELSE {[db |-> d, msgs |-> Send(m, Msg(next, 0, 0)), submitted |-> next,
               depth |-> 0]}
        : next \in FirstQueued(d) }

Init ==
    /\ db = [t \in TaskIds |-> AbsentRow]
    /\ now = 0
    /\ msgs = EmptyBag
    /\ wk = [w \in Workers |-> IdleWorker]
    /\ cache = {}
    /\ reports = 0
    /\ runs = [t \in TaskIds |-> 0]
    /\ stopped = {}
    /\ submitted = 0

\* enqueue(request): the row is created queued and its first attempt submitted
Enqueue(t, prio, pkg, purl) ==
    /\ db[t].status = "absent"
    /\ \A u \in TaskIds : u < t => db[u].status # "absent"
    /\ db' = _update_queue_positions(
                [db EXCEPT ![t] = [AbsentRow EXCEPT !.status = "queued",
                                       !.priority = prio, !.queued_at = now,
                                       !.purl = purl, !.package = pkg]])
    /\ msgs' = Send(msgs, Msg(t, 0, 0))
    /\ submitted' = 0
    /\ UNCHANGED <<now, wk, cache, reports, runs, stopped>>

\* messages whose eta has passed are all ready alike: their eta is kept as 0
Ripen(m, t0) == IF m.eta <= t0 THEN [m EXCEPT !.eta = 0] ELSE m

Ripened(b, t0) ==
    LET keys == {Ripen(m, t0) : m \in BagToSet(b)}
        copies(k) == Cardinality({<<m, i>> \in BagToSet(b) \X (1..MaxDup + 1) :
                                     Ripen(m, t0) = k /\ i <= CopiesIn(m, b)})
    IN  [k \in keys |-> IF copies(k) > MaxDup THEN MaxDup ELSE copies(k)]

Tick(limit) ==
    /\ now < limit * default_retry_delay
    /\ \A w \in Workers : wk[w].pc \in {"idle", "exec"}
    /\ now' = now + default_retry_delay
    /\ msgs' = Ripened(msgs, now')
    /\ submitted' = 0
    /\ UNCHANGED <<db, wk, cache, reports, runs, stopped>>

\* ------------------------------------------------- run_dynamic_analysis
\* 2 ** n
RECURSIVE Pow2(_)
Pow2(n) == IF n = 0 THEN 1 ELSE 2 * Pow2(n - 1)

\* a backoff that grows in proportion to the retries made
retry_countdownLinear(retries) == RetryBase * retries

\* retry_countdown = 60 * (2 ** self.request.retries)
retry_countdown(retries) == RetryBase * Pow2(retries)

\* Task.retry of Celery: past max_retries it raises `exc` instead of re-sending
RetryExhausted(retries) == retries + 1 > max_retries

\* the slot check left out
OtherRunningUnchecked(d, t) == FALSE

\* the check that guards the single slot: another row is running
OtherRunning(d, t) == Running(d) \ {t} # {}

\* the attempt takes the slot and the row keeps its place in the queue
MarkRunningKeepsPosition(row, t0) ==
    [row EXCEPT !.status = "running", !.started_at = t0, !.last_heartbeat = t0]

\* lines 92-97: the row as saved when the attempt takes the slot
MarkRunning(row, t0) ==
    [row EXCEPT !.status = "running", !.started_at = t0,
                !.queue_position = Null, !.last_heartbeat = t0]

\* lines 40-97, one transaction: a worker takes message m off the analysis queue
Start(w, m) ==
    /\ wk[w].pc = "idle"
    /\ \A v \in Workers : v < w => wk[v].pc # "idle"
    /\ BagIn(m, msgs)
    /\ m.eta <= now
    /\ LET t == m.id
           rest == msgs (-) SetToBag({m})
       IN  IF db[t].status = "absent"
           THEN \* .get(id=task_id) raises DoesNotExist
                /\ wk' = [wk EXCEPT ![w] = [IdleWorker EXCEPT !.pc = "failed",
                              !.id = t, !.retries = m.retries, !.exc = "does_not_exist"]]
                /\ msgs' = rest
                /\ submitted' = 0
                /\ UNCHANGED db
           ELSE IF OtherRunning(db, t)
           THEN IF RetryExhausted(m.retries)
                THEN \* the transaction rolls back, Exception("Another task is running")
                     \* reaches the `except Exception` handler
                     /\ wk' = [wk EXCEPT ![w] = [IdleWorker EXCEPT !.pc = "failed",
                                   !.id = t, !.retries = m.retries, !.task = db[t],
                                   !.exc = "contention"]]
                     /\ msgs' = rest
                     /\ submitted' = 0
                     /\ UNCHANGED db
                ELSE /\ msgs' = Send(rest, Msg(t, m.retries + 1, now + ContentionCountdown))
                     /\ submitted' = 0
                     /\ UNCHANGED <<db, wk>>
           ELSE IF db[t].status = "completed"
           THEN /\ msgs' = rest
                /\ submitted' = 0
                /\ UNCHANGED <<db, wk>>
           ELSE IF db[t].purl # NoPurl /\ CompletedMatches(db, t) # {}
           THEN \E c \in LatestCompleted(db, t) :
                  \E r \in _process_next_queued_task(
                              [db EXCEPT ![t] = Reuse(db[t], db[c], now)], rest, now) :
                     /\ db' = r.db
                     /\ msgs' = r.msgs
                     /\ submitted' = r.submitted
                     /\ UNCHANGED wk
           ELSE /\ db' = [db EXCEPT ![t] = MarkRunning(db[t], now)]
                /\ wk' = [wk EXCEPT ![w] = [IdleWorker EXCEPT !.pc = "cache", !.id = t,
                              !.retries = m.retries, !.task = MarkRunning(db[t], now)]]
                /\ msgs' = rest
                /\ submitted' = 0
    /\ UNCHANGED <<now, cache, reports, runs, stopped>>

\* lines 101-131: cache.get; a hit completes the task from the in-memory object,
\* a miss calls Helper.run_package_analysis
CacheLookup(w) ==
    /\ wk[w].pc = "cache"
    /\ LET t == wk[w].id
           hit == [wk[w].task EXCEPT !.status = "completed", !.completed_at = now,
                                     !.duration_seconds = 0]
       IN  IF wk[w].task.package \in cache
           THEN /\ db' = [db EXCEPT ![t] = hit]
                /\ wk' = [wk EXCEPT ![w].pc = "next", ![w].task = hit]
                /\ UNCHANGED runs
           ELSE /\ wk' = [wk EXCEPT ![w].pc = "exec", ![w].start_time = now]
                /\ runs' = [runs EXCEPT ![t] = @ + 1]
                /\ UNCHANGED db
    /\ submitted' = 0
    /\ UNCHANGED <<now, msgs, cache, reports, stopped>>

ExecOutcomes == {"ok", "ok_container", "analysis_error"}

\* lines 127-150: Helper.run_package_analysis returns or raises; on return the
\* heartbeat transaction reloads the row and writes it only if still running
ExecReturn(w, outcome) ==
    /\ wk[w].pc = "exec"
    /\ LET t == wk[w].id
           fresh == db[t]
           beat == [fresh EXCEPT !.last_heartbeat = now,
                       !.container_id = IF outcome = "ok_container" THEN t ELSE @]
       IN  IF outcome \in {"ok", "ok_container"}
           THEN IF fresh.status = "running"
                THEN /\ db' = [db EXCEPT ![t] = beat]
                     /\ wk' = [wk EXCEPT ![w].pc = "persist", ![w].task = beat]
                ELSE /\ wk' = [wk EXCEPT ![w].pc = "persist", ![w].task = fresh]
                     /\ UNCHANGED db
           ELSE /\ wk' = [wk EXCEPT ![w].pc = "failed", ![w].exc = outcome]
                /\ UNCHANGED db
    /\ submitted' = 0
    /\ UNCHANGED <<now, msgs, cache, reports, runs, stopped>>

PersistOutcomes == {"ok", "cache_error", "save_error"}

\* the completing save without the duration
CompletedRowNoDuration(row, t0, start, rep) ==
    [row EXCEPT !.status = "completed", !.completed_at = t0, !.report = rep]

\* lines 167-172: the fields the completing save sets on the attempt's snapshot
CompletedRow(row, t0, start, rep) ==
    [row EXCEPT !.status = "completed", !.completed_at = t0,
                !.duration_seconds = t0 - start, !.report = rep]

\* lines 152-172: cache.set, save_report, latest('id'), then the completing save
Persist(w, outcome) ==
    /\ wk[w].pc = "persist"
    /\ LET t == wk[w].id
           done == CompletedRow(wk[w].task, now, wk[w].start_time, reports + 1)
       IN  CASE outcome = "ok" ->
                  /\ cache' = cache \cup {wk[w].task.package}
                  /\ reports' = reports + 1
                  /\ db' = [db EXCEPT ![t] = done]
                  /\ wk' = [wk EXCEPT ![w].pc = "profreport", ![w].task = done]
            [] outcome = "cache_error" ->
                  /\ wk' = [wk EXCEPT ![w].pc = "failed", ![w].exc = "cache_error"]
                  /\ UNCHANGED <<cache, reports, db>>
            [] outcome = "save_error" ->
                  /\ cache' = cache \cup {wk[w].task.package}
                  /\ wk' = [wk EXCEPT ![w].pc = "failed", ![w].exc = "save_error"]
                  /\ UNCHANGED <<reports, db>>
    /\ submitted' = 0
    /\ UNCHANGED <<now, msgs, runs, stopped>>

\* lines 174-192: save_professional_report, then the save of download_url
ProfessionalReport(w, ok) ==
    /\ wk[w].pc = "profreport"
    /\ LET t == wk[w].id
           withUrl == [wk[w].task EXCEPT !.download_url = t]
       IN  IF ok
           THEN /\ db' = [db EXCEPT ![t] = withUrl]
                /\ wk' = [wk EXCEPT ![w].pc = "next", ![w].task = withUrl]
           ELSE /\ wk' = [wk EXCEPT ![w].pc = "next"]
                /\ UNCHANGED db
    /\ submitted' = 0
    /\ UNCHANGED <<now, msgs, cache, reports, runs, stopped>>

\* lines 114-121 and 194-202: _process_next_queued_task, return success
Finish(w) ==
    /\ wk[w].pc = "next"
    /\ \E r \in _process_next_queued_task(db, msgs, now) :
          /\ db' = r.db
          /\ msgs' = r.msgs
          /\ submitted' = r.submitted
    /\ wk' = [wk EXCEPT ![w] = IdleWorker]
    /\ UNCHANGED <<now, cache, reports, runs, stopped>>

\* every error recorded as unknown_error
ErrorCategoryUnknown(exc) == "unknown_error"

\* lines 217-224: error_details.get('error_category', 'unknown_error')
ErrorCategory(exc) == IF exc = "analysis_error" THEN "analysis_failure" ELSE "unknown_error"

\* lines 212-229: the failure snapshot onto the freshly loaded row
FailureSnapshot(row, exc, t0) ==
    [row EXCEPT !.status = "failed", !.completed_at = t0, !.error_message = exc,
                !.error_category = ErrorCategory(exc), !.queue_position = Null]

\* lines 207-231: the `except Exception` handler records the failure
RecordFailure(w, saved) ==
    /\ wk[w].pc = "failed"
    /\ IF saved /\ db[wk[w].id].status # "absent"
       THEN db' = [db EXCEPT ![wk[w].id] = FailureSnapshot(@, wk[w].exc, now)]
       ELSE UNCHANGED db
    /\ wk' = [wk EXCEPT ![w].pc = "failed_next"]
    /\ submitted' = 0
    /\ UNCHANGED <<now, msgs, cache, reports, runs, stopped>>

\* lines 233-243: _process_next_queued_task, then the retry or the final raise
RetryOrGiveUp(w) ==
    /\ wk[w].pc = "failed_next"
    /\ \E r \in _process_next_queued_task(db, msgs, now) :
          /\ db' = r.db
          /\ msgs' = IF wk[w].retries < max_retries
                     THEN Send(r.msgs, Msg(wk[w].id, wk[w].retries + 1,
                                           now + retry_countdown(wk[w].retries)))
                     ELSE r.msgs
          /\ submitted' = r.submitted
    /\ wk' = [wk EXCEPT ![w] = IdleWorker]
    /\ UNCHANGED <<now, cache, reports, runs, stopped>>

\* ------------------------------------------------------- check_timeouts
\* AnalysisTask.is_timed_out(): the deadline is anchored to started_at
is_timed_out(row, t0) ==
    /\ row.status = "running"
    /\ row.started_at # Null
    /\ t0 - row.started_at > row.timeout_minutes * 60

\* the sweep records the category under the name "timeout"
TimedOutRowOtherCategory(row, t0, stop_ok) ==
    [row EXCEPT !.status = "failed", !.error_message = "timeout",
                !.error_category = "timeout",
                !.container_stopped = IF row.container_id = Null THEN "none"
                                      ELSE IF stop_ok THEN "true" ELSE "false",
                !.completed_at = t0, !.queue_position = Null]

\* lines 349-362: the row as saved for a timed out task
TimedOutRow(row, t0, stop_ok) ==
    [row EXCEPT !.status = "failed", !.error_message = "timeout",
                !.error_category = "timeout_error",
                !.container_stopped = IF row.container_id = Null THEN "none"
                                      ELSE IF stop_ok THEN "true" ELSE "false",
                !.completed_at = t0, !.queue_position = Null]

\* lines 318-372, one transaction
check_timeouts(stop_ok) ==
    LET timed == {t \in TaskIds : is_timed_out(db[t], now)}
        swept == [t \in TaskIds |->
                    IF t \in timed THEN TimedOutRow(db[t], now, stop_ok) ELSE db[t]]
    IN  /\ stopped' = stopped \cup {db[t].container_id : t \in {u \in timed : db[u].container_id # Null}}
        /\ IF timed # {}
           THEN \E r \in _process_next_queued_task(swept, msgs, now) :
                   /\ db' = r.db
                   /\ msgs' = r.msgs
                   /\ submitted' = r.submitted
           ELSE submitted' = 0 /\ UNCHANGED <<db, msgs>>
        /\ UNCHANGED <<now, wk, cache, reports, runs>>

\* two tasks of one priority, with and without purl; executor runs that succeed
\* or raise an AnalysisError; cache, report and failure-record writes succeed
Next ==
    \/ \E t \in 1..MainTasks, pkg \in Packages :
          \E purl \in {NoPurl, pkg} : Enqueue(t, 5, pkg, purl)
    \/ Tick(MaxTicks)
    \/ \E w \in Workers : \E m \in BagToSet(msgs) : Start(w, m)
    \/ \E w \in Workers : CacheLookup(w)
    \/ \E w \in Workers, outcome \in ExecOutcomes : ExecReturn(w, outcome)
    \/ \E w \in Workers : Persist(w, "ok")
    \/ \E w \in Workers : ProfessionalReport(w, TRUE)
    \/ \E w \in Workers : Finish(w)
    \/ \E w \in Workers : RecordFailure(w, TRUE)
    \/ \E w \in Workers : RetryOrGiveUp(w)
    \/ check_timeouts(TRUE)

Spec == Init /\ [][Next]_vars

\* the queue with every row of the table in use and both priorities, executor
\* runs succeeding, no timeout sweep
NextQueue ==
    \/ \E t \in TaskIds, prio \in Priorities, pkg \in Packages :
          \E purl \in {NoPurl, pkg} : Enqueue(t, prio, pkg, purl)
    \/ Tick(QueueTicks)
    \/ \E w \in Workers : \E m \in BagToSet(msgs) : Start(w, m)
    \/ \E w \in Workers : CacheLookup(w)
    \/ \E w \in Workers : ExecReturn(w, "ok")
    \/ \E w \in Workers : Persist(w, "ok")
    \/ \E w \in Workers : ProfessionalReport(w, TRUE)
    \/ \E w \in Workers : Finish(w)
    \/ \E w \in Workers : RecordFailure(w, TRUE)
    \/ \E w \in Workers : RetryOrGiveUp(w)

SpecQueue == Init /\ [][NextQueue]_vars

\* two tasks without purl, an executor that reports its container, and every
\* write that can raise: the cache write, the report and its download url, the
\* failure record; a container that does not stop
NextFaults ==
    \/ \E t \in 1..MainTasks, pkg \in Packages : Enqueue(t, 5, pkg, NoPurl)
    \/ Tick(MaxTicks)
    \/ \E w \in Workers : \E m \in BagToSet(msgs) : Start(w, m)
    \/ \E w \in Workers : CacheLookup(w)
    \/ \E w \in Workers, outcome \in {"ok_container", "analysis_error"} :
          ExecReturn(w, outcome)
    \/ \E w \in Workers, outcome \in PersistOutcomes : Persist(w, outcome)
    \/ \E w \in Workers, ok \in BOOLEAN : ProfessionalReport(w, ok)
    \/ \E w \in Workers : Finish(w)
    \/ \E w \in Workers, saved \in BOOLEAN : RecordFailure(w, saved)
    \/ \E w \in Workers : RetryOrGiveUp(w)
    \/ \E stop_ok \in BOOLEAN : check_timeouts(stop_ok)

SpecFaults == Init /\ [][NextFaults]_vars

\* a pool of worker processes on the analysis queue
AnalysisWorkersPool == Workers

\* celery.py lines 18-19: one worker process takes the analysis queue, one
\* message at a time
AnalysisWorkers == {1}

\* Next with the analysis queue served by AnalysisWorkers; check_timeouts runs
\* on the maintenance queue beside it
NextSingle ==
    \/ \E t \in 1..MainTasks, pkg \in Packages :
          \E purl \in {NoPurl, pkg} : Enqueue(t, 5, pkg, purl)
    \/ Tick(MaxTicks)
    \/ \E w \in AnalysisWorkers : \E m \in BagToSet(msgs) : Start(w, m)
    \/ \E w \in AnalysisWorkers : CacheLookup(w)
    \/ \E w \in AnalysisWorkers, outcome \in ExecOutcomes : ExecReturn(w, outcome)
    \/ \E w \in AnalysisWorkers : Persist(w, "ok")
    \/ \E w \in AnalysisWorkers : ProfessionalReport(w, TRUE)
    \/ \E w \in AnalysisWorkers : Finish(w)
    \/ \E w \in AnalysisWorkers : RecordFailure(w, TRUE)
    \/ \E w \in AnalysisWorkers : RetryOrGiveUp(w)
    \/ check_timeouts(TRUE)

SpecSingle == Init /\ [][NextSingle]_vars

\* one worker's steps between taking a message and returning
Attempt(w) ==
    \/ CacheLookup(w)
    \/ \E outcome \in {"ok", "analysis_error"} : ExecReturn(w, outcome)
    \/ Persist(w, "ok")
    \/ ProfessionalReport(w, TRUE)
    \/ Finish(w)
    \/ RecordFailure(w, TRUE)
    \/ RetryOrGiveUp(w)

\* the broker hands a ripe message to a free worker
Deliver == \E w \in Workers : \E m \in BagToSet(msgs) : Start(w, m)

\* ---------------------------------------------------- cleanup_old_tasks
\* a retention window that ends on the seventh day
ExpiredInclusive(row, t0) ==
    /\ row.status \in {"completed", "failed"}
    /\ row.completed_at # Null
    /\ row.completed_at <= t0 - RetentionDays * Day

\* lines 385-397: status completed or failed, completed_at__lt=cutoff_date
Expired(row, t0) ==
    /\ row.status \in {"completed", "failed"}
    /\ row.completed_at # Null
    /\ row.completed_at < t0 - RetentionDays * Day

\* lines 379-408; the two deletes are taken as one step
cleanup_old_tasks ==
    /\ db' = [t \in TaskIds |-> IF Expired(db[t], now) THEN AbsentRow ELSE db[t]]
    /\ submitted' = 0
    /\ UNCHANGED <<now, msgs, wk, cache, reports, runs, stopped>>

\* a day passes between attempts (task_time_limit keeps an attempt far below
\* a day); a cache entry, kept for 7 days, may have expired
DayPasses(limit) ==
    /\ now < limit * Day
    /\ \A w \in Workers : wk[w].pc = "idle"
    /\ now' = now + Day
    /\ msgs' = Ripened(msgs, now')
    /\ cache' \in {cache, {}}
    /\ submitted' = 0
    /\ UNCHANGED <<db, wk, reports, runs, stopped>>

\* two tasks created on the first two days, executor runs that succeed or
\* raise an AnalysisError, and the hourly cleanup over the days that follow
NextRetention ==
    \/ \E t \in 1..MainTasks, pkg \in Packages :
          now <= Day /\ Enqueue(t, 5, pkg, NoPurl)
    \/ DayPasses(MaxDays)
    \/ Deliver
    \/ \E w \in Workers : Attempt(w)
    \/ cleanup_old_tasks

SpecRetention == Init /\ [][NextRetention]_vars

\* two tasks without purl; executor runs that succeed or raise an AnalysisError
NextLive ==
    \/ \E t \in 1..MainTasks, pkg \in Packages : Enqueue(t, 5, pkg, NoPurl)
    \/ Tick(MaxTicks)
    \/ Deliver
    \/ \E w \in Workers : Attempt(w)
    \/ check_timeouts(TRUE)

\* the scheduling: time passes, the beat schedule runs check_timeouts again and
\* again, ripe messages are delivered, and a worker that has taken a message
\* goes on to the end of the attempt (the executor call returns)
SpecLive ==
    /\ Init /\ [][NextLive]_vars
    /\ WF_vars(Tick(MaxTicks))
    /\ WF_vars(check_timeouts(TRUE))
    /\ WF_vars(Deliver)
    /\ \A w \in Workers : WF_vars(Attempt(w))

\* ---------------------------------------------------------------- claims
InFlight == {w \in Workers : wk[w].pc = "exec"}

\* C1: single-flight -- in every reachable state, under every interleaving of
\* attempts, Dispatch-Next calls, timeout sweeps and enqueues, at most one
\* AnalysisTask has status = running.
C1_SingleFlight == Cardinality(Running(db)) <= 1

\* a task holds the slot while the attempt on another, still queued, was deferred
C1_Witness ==
    \E t \in TaskIds : \E m \in BagToSet(msgs) :
        /\ db[t].status = "running"
        /\ m.id # t /\ m.retries = 1 /\ m.eta > now
        /\ db[m.id].status = "queued"

\* C2: at any instant at most one Container Executor invocation
\* (Helper.run_package_analysis) is in flight system-wide.
C2_OneExecutorInFlight == Cardinality(InFlight) <= 1

\* C3: contention is a deferral, never a failure -- an attempt that finds another
\* task running changes no field of any task and schedules a re-attempt 30 s
\* later, however often the task was deferred or retried before.
C3_ContentionDefers ==
    [][\A w \in Workers : \A m \in BagToSet(msgs) :
          (Start(w, m) /\ OtherRunning(db, m.id)) =>
              /\ db' = db
              /\ wk'[w].pc = "idle"
              /\ BagIn(Msg(m.id, m.retries + 1, now + ContentionCountdown), msgs')]_vars

\* C4: idempotent dispatch -- an attempt on a task that is already completed
\* leaves every field of that task unchanged, starts no executor run and ends
\* with the message consumed (success), whatever else is going on.
C4_IdempotentDispatch ==
    [][\A w \in Workers :
          /\ \A m \in BagToSet(msgs) :
                (Start(w, m) /\ db[m.id].status = "completed" /\ ~OtherRunning(db, m.id)) =>
                    /\ db' = db
                    /\ runs' = runs
                    /\ wk'[w].pc = "idle"
          /\ (/\ wk[w].pc \in {"failed", "failed_next"}
              /\ wk[w].exc = "contention"
              /\ wk[w].task.status = "completed"
              /\ wk'[w] # wk[w]) =>
                    db'[wk[w].id] = db[wk[w].id]]_vars
\* C5: result reuse -- of two queued tasks with the same purl, once the first has
\* completed with a report, the second leaves the queue only by becoming completed
\* with that report, and no executor run is started for it.
C5_ResultReuse ==
    [][\A t \in TaskIds :
          (/\ db[t].status = "queued"
           /\ db[t].purl # NoPurl
           /\ CompletedMatches(db, t) # {}) =>
              /\ db'[t].status \in {"queued", "completed"}
              /\ runs'[t] = runs[t]
              /\ db'[t].status = "completed" =>
                    \E u \in CompletedMatches(db, t) : db'[t].report = db[u].report]_vars

\* C6: queue ordering -- the task Dispatch-Next submits is a queued task of
\* maximum priority and, among those, of earliest queued_at.
C6_QueueOrdering ==
    submitted # 0 =>
        /\ db[submitted].status = "queued"
        /\ \A u \in Queued(db) :
              /\ db[u].priority <= db[submitted].priority
              /\ db[u].priority = db[submitted].priority =>
                    db[submitted].queued_at <= db[u].queued_at

\* B (higher priority, queued later) is submitted while A (lower priority,
\* queued first) waits
C6_Witness ==
    /\ submitted # 0
    /\ \E a \in Queued(db) :
          /\ db[a].priority < db[submitted].priority
          /\ db[a].queued_at < db[submitted].queued_at

Sweep == \E stop_ok \in BOOLEAN : check_timeouts(stop_ok)

\* the state a sweep leaves a timed out task in
SweptState(row) ==
    /\ row.status = "failed"
    /\ row.error_category = "timeout_error"
    /\ row.completed_at # Null
    /\ row.queue_position = Null

C8_RetryPolicy ==
    [][\A w \in Workers :
          (/\ wk[w].pc = "failed_next"
           /\ wk[w].exc = "analysis_error"
           /\ wk'[w].pc = "idle") =>
              LET t == wk[w].id
                  mine(b) == {m \in BagToSet(b) : m.id = t}
              IN  /\ runs[t] = 1 =>
                        \E m \in mine(msgs') : m.retries > 0 /\ m.eta >= now + RetryBase
                  /\ runs[t] >= 2 => mine(msgs') \subseteq mine(msgs)]_vars

\* C9: the retry_count field of a task equals the number of retries made for it:
\* 0 during its first executor run, 1 during the run that retries a failure.
C9_RetryCountReflectsRetries ==
    \A w \in Workers :
        (wk[w].pc = "exec" /\ db[wk[w].id].status = "running") =>
            db[wk[w].id].retry_count =
                IF db[wk[w].id].error_message = "analysis_error" THEN 1 ELSE 0

Sanctioned ==
    {<<"absent", "queued">>, <<"queued", "running">>, <<"queued", "completed">>,
     <<"running", "completed">>, <<"running", "failed">>, <<"failed", "queued">>}

\* C10: every status change of a task is queued -> running, queued -> completed,
\* running -> completed, running -> failed or failed -> queued (creation aside).
C10_SanctionedTransitions ==
    [][\A t \in TaskIds :
          db'[t].status # db[t].status => <<db[t].status, db'[t].status>> \in Sanctioned]_vars

\* C11: a terminal task is never mutated again -- once completed, its status and
\* outcome fields stay as they are; once failed, its status, error_category,
\* error_message and completed_at change only when a re-attempt takes it back to
\* running; a task the timeout sweep failed is not rewritten by the attempt
\* whose executor call was still in flight.
C11_TerminalNeverMutated ==
    [][\A t \in TaskIds :
          /\ db[t].status = "completed" =>
                /\ db'[t].status = "completed"
                /\ db'[t].report = db[t].report
                /\ db'[t].completed_at = db[t].completed_at
                /\ db'[t].error_message = db[t].error_message
                /\ db'[t].error_category = db[t].error_category
          /\ (db[t].status = "failed" /\ db'[t].status # "running") =>
                /\ db'[t].status = "failed"
                /\ db'[t].error_category = db[t].error_category
                /\ db'[t].error_message = db[t].error_message
                /\ db'[t].completed_at = db[t].completed_at]_vars

\* C12: queue_position is non-null exactly when status = queued; the step that
\* takes a task to running, completed or failed clears it.
C12_QueuePositionIffQueued ==
    \A t \in TaskIds : (db[t].queue_position # Null) <=> (db[t].status = "queued")

\* one task was taken off the queue and runs, the other still waits at its place
C12_Witness ==
    \E t, u \in TaskIds :
        /\ db[t].status = "running" /\ db[t].queue_position = Null
        /\ db[u].status = "queued" /\ db[u].queue_position # Null
        /\ \E w \in Workers : wk[w].id = t /\ wk[w].pc = "exec"

\* C13: after every operation that changes the set of queued tasks, the
\* queue_position values of the N queued tasks are exactly 1..N, in the order
\* (priority descending, queued_at ascending).
C13_QueuePositionsDense ==
    /\ {db[t].queue_position : t \in Queued(db)} = 1..Cardinality(Queued(db))
    /\ \A t, u \in Queued(db) :
          Before(db, t, u) => db[t].queue_position < db[u].queue_position

\* C14: report is non-null exactly when status = completed, whether the task
\* completed by an executor run, by result reuse or by a Result Cache hit.
C14_ReportIffCompleted ==
    \A t \in TaskIds : (db[t].report # Null) <=> (db[t].status = "completed")

\* C15: completed_at is non-null exactly when status is completed or failed; a
\* queued or running task, a re-attempt after a failure included, has none.
C15_CompletedAtIffTerminal ==
    \A t \in TaskIds :
        (db[t].completed_at # Null) <=> (db[t].status \in {"completed", "failed"})

\* C16: a failed attempt never blocks the slot -- when its failure path ends,
\* retry or not, failure record saved or not, the failing task is not running
\* and Dispatch-Next has run: with nothing running and tasks queued, one of
\* them was submitted or completed by reuse.
C16_FailureFreesSlot ==
    [][\A w \in Workers :
          (wk[w].pc = "failed_next" /\ wk'[w].pc = "idle") =>
              /\ db'[wk[w].id].status # "running"
              /\ (Running(db) = {} /\ Queued(db) # {}) =>
                    (submitted' # 0 \/ Queued(db') # Queued(db))]_vars

\* C17: forward progress -- with attempts delivered, re-attempts firing, the
\* sweep running again and again and every executor call returning, every
\* enqueued task reaches completed or failed; none stays queued or running
\* for ever.
C17_ForwardProgress ==
    \A t \in TaskIds :
        (db[t].status \in {"queued", "running"}) ~> (db[t].status \in {"completed", "failed"})

\* both tasks have come to an end, one of them by its second executor run
C17_Witness ==
    /\ \A t \in 1..MainTasks : db[t].status \in {"completed", "failed"}
    /\ \E t \in 1..MainTasks : db[t].status = "completed" /\ runs[t] = 2
    /\ \A w \in Workers : wk[w].pc = "idle"

\* C18: an attempt on a newly created task, with no other task around, an
\* executor run and a report save that succeed, leaves the task completed with
\* completed_at and duration_seconds set, and returns success.
C18_FreshAttemptCompletes ==
    [][\A w \in Workers :
          LET t == wk[w].id IN
          /\ (wk[w].pc = "persist" /\ wk'[w].pc = "profreport") =>
                /\ db'[t].status = "completed"
                /\ db'[t].completed_at # Null
                /\ db'[t].duration_seconds # Null
          /\ (/\ wk[w].pc = "next" /\ wk'[w].pc = "idle"
              /\ wk[w].retries = 0
              /\ \A u \in TaskIds \ {t} : db[u].status = "absent") =>
                /\ db'[t].status = "completed"
                /\ db'[t].completed_at # Null
                /\ db'[t].duration_seconds # Null]_vars

\* the only task there is went through one executor run and is completed
C18_Witness ==
    \E t \in TaskIds :
        /\ \A u \in TaskIds \ {t} : db[u].status = "absent"
        /\ db[t].status = "completed" /\ db[t].report # Null
        /\ db[t].completed_at # Null /\ db[t].duration_seconds # Null
        /\ runs[t] = 1
        /\ \A w \in Workers : wk[w].pc = "idle"

\* C19: a retry after a failure is scheduled only when the retries already made
\* are fewer than max_retries, and its delay is exactly 60 * 2^k seconds for k
\* retries already made, hence never below 60.
C19_RetryBackoff ==
    [][\A w \in Workers :
          (wk[w].pc = "failed_next" /\ wk'[w].pc = "idle") =>
              LET t == wk[w].id
                  k == wk[w].retries
              IN  /\ \A j \in 0..MaxBackoff :
                        retry_countdown(j) = 60 * 2^j /\ retry_countdown(j) >= 60
                  /\ k < max_retries =>
                        BagIn(Msg(t, k + 1, now + 60 * 2^k), msgs')
                  /\ \A m \in BagToSet(msgs') :
                        (m.retries > 0 /\ CopiesIn(m, msgs') > CopiesIn(m, msgs)) =>
                            /\ k < max_retries
                            /\ m = Msg(t, k + 1, now + 60 * 2^k)]_vars

\* a failed first attempt has ended and its retry waits for its 60 s to pass
C19_Witness ==
    \E t \in TaskIds :
        /\ db[t].status = "failed"
        /\ BagIn(Msg(t, 1, now + 60), msgs)
        /\ \A w \in Workers : wk[w].id # t

\* C20: best-effort side actions cannot fail the primary transition -- (a) when
\* the Result Cache write raises after a successful executor run the attempt
\* still leaves the task completed with its report; (b) when a container does
\* not stop during a sweep, every timed out task of the sweep is still failed.
C20_BestEffortSideActions ==
    [][/\ \A w \in Workers :
             (/\ wk[w].pc = "failed_next" /\ wk[w].exc = "cache_error"
              /\ wk'[w].pc = "idle") =>
                 /\ db'[wk[w].id].status = "completed"
                 /\ db'[wk[w].id].report # Null
       /\ Sweep =>
             \A t \in TaskIds : is_timed_out(db[t], now) => db'[t].status = "failed"]_vars

\* C21: when the report save or the report lookup raises after a successful
\* executor run, the task is not left running: as the attempt returns, the task
\* is failed or its re-attempt is scheduled, and Dispatch-Next has run.
C21_PersistenceErrorNotStuck ==
    [][\A w \in Workers :
          (/\ wk[w].pc = "failed_next" /\ wk[w].exc = "save_error"
           /\ wk'[w].pc = "idle") =>
              /\ db'[wk[w].id].status # "running" \/ wk[w].retries < max_retries
              /\ (Running(db) = {} /\ Queued(db) # {}) =>
                    (submitted' # 0 \/ Queued(db') # Queued(db))]_vars

\* C22: the failure snapshot -- one step records the task with status failed,
\* completed_at, error_message, queue_position null and the error_category of
\* the error's error_details, unknown_error for an error that carries none.
C22_FailureSnapshot ==
    [][\A w \in Workers :
          (wk[w].pc = "failed" /\ wk'[w].pc = "failed_next" /\ RecordFailure(w, TRUE)) =>
              LET t == wk[w].id
                  row == db'[t]
              IN  /\ row.status = "failed"
                  /\ row.completed_at = now
                  /\ row.error_message = wk[w].exc /\ row.error_message # ""
                  /\ row.queue_position = Null
                  /\ row.error_category = IF wk[w].exc = "analysis_error"
                                          THEN "analysis_failure" ELSE "unknown_error"
                  /\ \A u \in TaskIds \ {t} : db'[u] = db[u]]_vars

\* one task failed by the executor's AnalysisError, the other by a report save
C22_Witness ==
    \E t, u \in TaskIds :
        /\ db[t].status = "failed" /\ db[t].error_message = "analysis_error"
        /\ db[t].error_category = "analysis_failure"
        /\ db[u].status = "failed" /\ db[u].error_message = "save_error"
        /\ db[u].error_category = "unknown_error"

\* C23: cache lookup -- a hit completes the running task with no executor run
\* and goes on to Dispatch-Next; a miss goes on to the executor, and the cache
\* has no part in the task's outcome.
C23_CacheLookup ==
    [][\A w \in Workers :
          LET t == wk[w].id IN
          /\ (wk[w].pc = "cache" /\ wk'[w].pc # "cache"
                /\ wk[w].task.package \in cache) =>
                 /\ db'[t].status = "completed"
                 /\ runs' = runs
                 /\ wk'[w].pc = "next"
          /\ (wk[w].pc = "cache" /\ wk'[w].pc # "cache"
                /\ wk[w].task.package \notin cache) =>
                 /\ wk'[w].pc = "exec"
                 /\ runs'[t] = runs[t] + 1
                 /\ db' = db
          /\ (wk[w].pc = "failed" /\ wk[w].exc = "cache_error"
                /\ wk'[w].pc = "failed_next") =>
                 db'[t].status # "failed"]_vars

\* C24: Dispatch-Next called while a task is running submits nothing and
\* changes no field of any task.
C24_DispatchNextIdleWhileRunning ==
    [][/\ Running(db) # {} =>
             _process_next_queued_task(db, msgs, now) =
                 {[db |-> db, msgs |-> msgs, submitted |-> 0, depth |-> 0]}
       /\ \A w \in Workers :
             (/\ wk[w].pc \in {"next", "failed_next"} /\ wk'[w].pc = "idle"
              /\ Running(db) # {}) =>
                 /\ db' = db
                 /\ submitted' = 0
                 /\ \A m \in BagToSet(msgs') :
                       m.retries = 0 => CopiesIn(m, msgs') <= CopiesIn(m, msgs)]_vars

\* an attempt is about to call Dispatch-Next while one task runs and one waits
C24_Witness ==
    /\ Running(db) # {}
    /\ Queued(db) # {}
    /\ \E w \in Workers : wk[w].pc = "next" /\ db[wk[w].id].status = "completed"

\* C28: a completed task carries no failure data -- error_message is empty,
\* error_category and the error details are unset, also when it completed on a
\* retry or after the timeout sweep had failed it.
C28_CompletedCarriesNoFailure ==
    \A t \in TaskIds :
        db[t].status = "completed" =>
            /\ db[t].error_message = ""
            /\ db[t].error_category = ""
            /\ db[t].container_stopped = ""

\* C29: a task completed by result reuse holds the report and the download_url
\* its source holds once the source's own attempt has finished, however the
\* reuse interleaves with that attempt.
C29_ReuseMatchesSource ==
    \A t, u \in TaskIds :
        (/\ db[t].status = "completed" /\ db[u].status = "completed"
         /\ db[t].report # Null /\ db[t].report = db[u].report
         /\ \A w \in Workers : wk[w].pc # "idle" => wk[w].id \notin {t, u}) =>
            db[t].download_url = db[u].download_url

\* C26: with one analysis worker taking attempts one after another, and the
\* timeout sweep running beside it, at most one task is running and at most
\* one executor call is in flight at any time.
C26_SingleWorker ==
    /\ Cardinality(Running(db)) <= 1
    /\ Cardinality(InFlight) <= 1

\* the sweep has failed the task whose executor call the worker still waits
\* for, and the next task waits in the queue
C26_Witness ==
    \E w \in Workers :
        /\ wk[w].pc = "exec"
        /\ db[wk[w].id].status = "failed"
        /\ db[wk[w].id].error_category = "timeout_error"
        /\ Queued(db) # {}

\* C27: Dispatch-Next terminates -- every recursive call comes after one queued
\* task was completed by result reuse, so the recursion goes no deeper than the
\* number of tasks queued at entry; on return at most one task was submitted.
C27_DispatchNextTerminates ==
    \A r \in _process_next_queued_task(db, msgs, now) :
        /\ r.depth <= Cardinality(Queued(db))
        /\ r.depth = Cardinality(Queued(db)) - Cardinality(Queued(r.db))
        /\ BagCardinality(r.msgs) <= BagCardinality(msgs) + 1
        /\ r.submitted = 0 => r.msgs = msgs
        /\ r.submitted # 0 =>
              /\ r.db[r.submitted].status = "queued"
              /\ \A m \in BagToSet(r.msgs) :
                    CopiesIn(m, r.msgs) > CopiesIn(m, msgs) => m = Msg(r.submitted, 0, 0)

\* nothing runs and two queued tasks match a completed one: Dispatch-Next
\* completes both, two calls deep
C27_Witness ==
    /\ Running(db) = {}
    /\ \E r \in _process_next_queued_task(db, msgs, now) : r.depth = 2

\* C25: the retention sweep deletes exactly the completed and failed tasks
\* whose completed_at is more than 7 days before now; queued and running tasks
\* and terminal tasks inside the window stay, with every field as it was; a
\* second sweep right after deletes nothing.
C25_RetentionSweep ==
    [][cleanup_old_tasks =>
          \A t \in TaskIds :
              LET old == /\ db[t].status \in {"completed", "failed"}
                         /\ db[t].completed_at # Null
                         /\ now - db[t].completed_at > 7 * 86400
              IN  /\ old => db'[t].status = "absent"
                  /\ ~old => db'[t] = db[t]
                  /\ ~Expired(db'[t], now)]_vars

\* the task that ended on the first day is gone, the one that ended a day
\* later, seven days ago to the second, is still there
C25_Witness ==
    \E t, u \in TaskIds :
        /\ t < u
        /\ db[t].status = "absent"
        /\ db[u].status \in {"completed", "failed"}
        /\ now - db[u].completed_at = RetentionDays * Day

====
